---- MODULE Spec2Model ----
(***************************************************************************)
(* A model of github.com/davidsbond/plugin: the host side (Use, Exec,      *)
(* Close in plugin.go, the Client in internal/plugin), the plugin side     *)
(* (Run, startPlugin in plugin.go, the API in internal/plugin/api.go) and  *)
(* the typed command adapter (Command.Execute).                            *)
(*                                                                         *)
(* Go errors are sequences of atomic errors: nil is << >>, errors.Join is  *)
(* concatenation (Join drops nil operands and is nil when all are nil).    *)
(***************************************************************************)
EXTENDS Integers, Sequences, FiniteSets, TLC

\* ------------------------------------------------------------------ bounds
\* How many Exec calls the host issues on one handle in a behaviour.
MaxExecs == 2
\* How many times the host calls Close on the handle it got from Use.
MaxCloses == 2

\* ------------------------------------------------------------ proto values
\* A proto message is its full name and its content; the content "" stands
\* for the message whose fields all have their default value.
MessageTypes == {"StringValue", "Timestamp", "Duration"}

Message(t, v) == [type |-> t, val |-> v]

\* Marshal with the bug of writing no field at all.
MarshalLossy(m) == << >>

\* proto3 wire encoding: a field with the default value is not written.
Marshal(m) == IF m.val = "" THEN << >> ELSE << m.val >>

Unmarshal(t, bytes) == Message(t, IF bytes = << >> THEN "" ELSE bytes[1])

TypeURL(t) == << "type.googleapis.com", t >>

\* anypb.New: the envelope holds the type URL and the marshalled bytes.
AnyNew(m) == [TypeUrl |-> TypeURL(m.type), Value |-> Marshal(m)]

\* anypb.Any.UnmarshalNew: a new message of the type the URL names.
UnmarshalNew(any) == Unmarshal(any.TypeUrl[2], any.Value)

\* anypb.Any.UnmarshalTo(output): fails unless the URL names output's type.
UnmarshalToOk(any, outType) == any.TypeUrl = TypeURL(outType)

\* ------------------------------------------------------------------ errors
NoError == << >>

Err(tag, msg) == << [tag |-> tag, msg |-> msg] >>

Join(a, b) == a \o b

\* status.Error(code, msg)
StatusError(code, msg) == Err(code, msg)

StatusCodes == {"InvalidArgument", "NotFound", "Internal", "Unavailable", "Canceled"}

\* status.Code(err): OK for nil, the code of a status error, else Unknown.
Code(err) ==
    IF err = NoError THEN "OK"
    ELSE IF Len(err) = 1 /\ err[1].tag \in StatusCodes THEN err[1].tag
    ELSE "Unknown"

\* errors.Is(err, sentinel): some atomic error wraps the sentinel.
Is(err, sentinel) == \E i \in 1..Len(err) : err[i].tag = sentinel

\* --------------------------------------------------------- command handlers
\* The Run functions of the repository's test plugins.
RunEcho(in) == [out |-> in, err |-> NoError]

RunPingPong(in) ==
    IF in.val = "ping" THEN [out |-> Message("StringValue", "pong"), err |-> NoError]
    ELSE IF in.val = "pong" THEN [out |-> Message("StringValue", "ping"), err |-> NoError]
    ELSE [out |-> Message("StringValue", ""), err |-> Err("handler", << "invalid input", in.val >>)]

\* A Run function that returns a gRPC status error of its own.
RunLookup(in) ==
    IF in.val = ""
    THEN [out |-> in, err |-> StatusError("NotFound", << "no entry for", in.val >>)]
    ELSE [out |-> in, err |-> NoError]

Run(h, in) ==
    IF h = "PingPong" THEN RunPingPong(in)
    ELSE IF h = "Lookup" THEN RunLookup(in)
    ELSE RunEcho(in)

Descriptor(use, input, output, run) ==
    [Use |-> use, Input |-> input, Output |-> output, Run |-> run]

\* Command.Execute with the bug of running the handler on any payload.
CommandExecuteNoTypeCheck(ch, input) ==
    LET r == Run(ch.Run, UnmarshalNew(input)) IN
    IF r.err # NoError
    THEN [out |-> << >>, ran |-> TRUE, err |-> r.err]
    ELSE [out |-> << AnyNew(r.out) >>, ran |-> TRUE, err |-> NoError]

\* Command.Execute: decode the envelope, check the input type, run the
\* handler, encode its output.  out is << >> for a nil envelope; ran tells
\* whether the handler was invoked.
CommandExecute(ch, input) ==
    LET message == UnmarshalNew(input) IN
    IF message.type # ch.Input
    THEN [out |-> << >>, ran |-> FALSE,
          err |-> Err("plain", << "invalid input type for command", ch.Use >>)]
    ELSE LET r == Run(ch.Run, message) IN
         IF r.err # NoError
         THEN [out |-> << >>, ran |-> TRUE, err |-> r.err]
         ELSE [out |-> << AnyNew(r.out) >>, ran |-> TRUE, err |-> NoError]

\* ------------------------------------------------------- plugin binaries
CmdTest == Descriptor("test", "Timestamp", "Timestamp", "echo")
CmdPingPong == Descriptor("pingpong", "StringValue", "StringValue", "PingPong")
CmdEmpty == Descriptor("", "StringValue", "StringValue", "echo")
CmdTestString == Descriptor("test", "StringValue", "StringValue", "Lookup")

\* The binaries on the host's disk: a path (its components) gives the
\* Config the binary passes to Run and the version of its build info.
PathTest == << ".", "test_plugin" >>
PathPing == << "bin", "test_plugin" >>
PathBar == << "tmp", "bar" >>
PathDup == << "tmp", "dup" >>
PathNone == << "tmp", "missing" >>

Paths == {PathTest, PathPing, PathBar, PathDup, PathNone}

HasBinary(path) == path # PathNone

Binary(path) ==
    IF path = PathTest
    THEN [config |-> [Name |-> "test_plugin", Commands |-> << CmdTest >>],
          version |-> "v0.1.0"]
    ELSE IF path = PathPing
    THEN [config |-> [Name |-> "test_plugin", Commands |-> << CmdPingPong >>],
          version |-> "unknown"]
    ELSE IF path = PathBar
    THEN [config |-> [Name |-> "foo", Commands |-> << CmdPingPong >>],
          version |-> "v0.1.0"]
    ELSE [config |-> [Name |-> "dup", Commands |-> << CmdEmpty, CmdTest, CmdPingPong, CmdTestString >>],
          version |-> "unknown"]

\* filepath.Base of a path given by its components.
Base(path) == IF path = << >> THEN "." ELSE path[Len(path)]

\* ------------------------------------------------------------ plugin server
\* plugin.Info{} and the API before startPlugin has built them.
NoInfo == [Name |-> "", Version |-> "", Commands |-> << >>]

NoHandlers == [n \in {} |-> CmdTest]

NoAPI == [built |-> FALSE, info |-> NoInfo, handlers |-> NoHandlers]

\* The map assignment with the bug of keeping the entry a name has.
AddHandlerKeepsFirst(hs, command) ==
    [name \in DOMAIN hs \cup {command.Use} |->
        IF name \in DOMAIN hs THEN hs[name] ELSE command]

\* The map assignment with the bug of skipping a command without a name.
AddHandlerSkipsUnnamed(hs, command) ==
    IF command.Use = "" THEN hs
    ELSE [name \in DOMAIN hs \cup {command.Use} |->
             IF name = command.Use THEN command ELSE hs[name]]

\* handlers[command.Name()] = command.Execute: the entry of the name is the
\* command, whether or not the name had an entry.
AddHandler(hs, command) ==
    [name \in DOMAIN hs \cup {command.Use} |->
        IF name = command.Use THEN command ELSE hs[name]]

\* The loop of startPlugin over config.Commands: a later descriptor replaces
\* an earlier one of the same name in the map, every name is appended.
RECURSIVE BuildHandlers(_)
BuildHandlers(commands) ==
    IF commands = << >> THEN NoHandlers
    ELSE LET n == Len(commands)
         IN AddHandler(BuildHandlers(SubSeq(commands, 1, n - 1)), commands[n])

\* The command list with the bug of prepending each name.
BuildCommandsReversed(commands) ==
    [i \in 1..Len(commands) |-> commands[Len(commands) + 1 - i].Use]

BuildCommands(commands) == [i \in 1..Len(commands) |-> commands[i].Use]

BuildInfo(config, version) ==
    [Name |-> config.Name, Version |-> version, Commands |-> BuildCommands(config.Commands)]

NewAPI(info, handlers) == [built |-> TRUE, info |-> info, handlers |-> handlers]

\* API.Stat
APIStat(a) ==
    [Name |-> a.info.Name, Version |-> a.info.Version, Commands |-> a.info.Commands]

\* err.Error(): the text of an error, which for a status error names its
\* code before its message and for joined errors has one line for each.
RECURSIVE ErrorText(_)
ErrorText(err) ==
    IF err = NoError THEN << >>
    ELSE LET text == IF err[1].tag \in StatusCodes
                     THEN << "rpc error: code =", err[1].tag, "desc =" >> \o err[1].msg
                     ELSE err[1].msg
         IN IF Len(err) = 1 THEN text ELSE text \o << "\n" >> \o ErrorText(Tail(err))

\* API.Execute with the bug of looking the name up before checking that it
\* is not empty.
APIExecuteLookupFirst(a, name, input) ==
    IF name \notin DOMAIN a.handlers
    THEN [out |-> << >>, called |-> << >>, ran |-> << >>,
          err |-> StatusError("NotFound", << "unknown command", name >>)]
    ELSE IF name = ""
    THEN [out |-> << >>, called |-> << >>, ran |-> << >>,
          err |-> StatusError("InvalidArgument", << "missing command name" >>)]
    ELSE LET r == CommandExecute(a.handlers[name], input) IN
         IF r.err # NoError
         THEN [out |-> << >>, called |-> << name >>, ran |-> IF r.ran THEN << name >> ELSE << >>,
               err |-> StatusError("Internal", ErrorText(r.err))]
         ELSE [out |-> r.out, called |-> << name >>, ran |-> << name >>, err |-> NoError]

\* API.Execute with the bug of returning the handler's error as it is.
APIExecutePassesError(a, name, input) ==
    IF name = ""
    THEN [out |-> << >>, called |-> << >>, ran |-> << >>,
          err |-> StatusError("InvalidArgument", << "missing command name" >>)]
    ELSE IF name \notin DOMAIN a.handlers
    THEN [out |-> << >>, called |-> << >>, ran |-> << >>,
          err |-> StatusError("NotFound", << "unknown command", name >>)]
    ELSE LET r == CommandExecute(a.handlers[name], input) IN
         IF r.err # NoError
         THEN [out |-> << >>, called |-> << name >>, ran |-> IF r.ran THEN << name >> ELSE << >>, err |-> r.err]
         ELSE [out |-> r.out, called |-> << name >>, ran |-> << name >>, err |-> NoError]

\* API.Execute with the bug of invoking the handler again when it failed.
APIExecuteRetriesHandler(a, name, input) ==
    IF name = ""
    THEN [out |-> << >>, called |-> << >>, ran |-> << >>,
          err |-> StatusError("InvalidArgument", << "missing command name" >>)]
    ELSE IF name \notin DOMAIN a.handlers
    THEN [out |-> << >>, called |-> << >>, ran |-> << >>,
          err |-> StatusError("NotFound", << "unknown command", name >>)]
    ELSE LET r == CommandExecute(a.handlers[name], input) IN
         IF r.err # NoError
         THEN [out |-> << >>, called |-> << name, name >>, ran |-> IF r.ran THEN << name >> ELSE << >>,
               err |-> StatusError("Internal", ErrorText(r.err))]
         ELSE [out |-> r.out, called |-> << name >>, ran |-> << name >>, err |-> NoError]

\* API.Execute with the bug of answering with the status code of the
\* handler's error.
APIExecuteKeepsCode(a, name, input) ==
    IF name = ""
    THEN [out |-> << >>, called |-> << >>, ran |-> << >>,
          err |-> StatusError("InvalidArgument", << "missing command name" >>)]
    ELSE IF name \notin DOMAIN a.handlers
    THEN [out |-> << >>, called |-> << >>, ran |-> << >>,
          err |-> StatusError("NotFound", << "unknown command", name >>)]
    ELSE LET r == CommandExecute(a.handlers[name], input) IN
         IF r.err # NoError
         THEN [out |-> << >>, called |-> << name >>, ran |-> IF r.ran THEN << name >> ELSE << >>,
               err |-> StatusError(IF Code(r.err) = "Unknown" THEN "Internal" ELSE Code(r.err),
                                   ErrorText(r.err))]
         ELSE [out |-> r.out, called |-> << name >>, ran |-> << name >>, err |-> NoError]

\* API.Execute: out is the ExecuteResponse's output envelope, called the keys
\* of the registry whose handler was invoked, ran the names of the commands
\* whose Run function was reached.
APIExecute(a, name, input) ==
    IF name = ""
    THEN [out |-> << >>, called |-> << >>, ran |-> << >>,
          err |-> StatusError("InvalidArgument", << "missing command name" >>)]
    ELSE IF name \notin DOMAIN a.handlers
    THEN [out |-> << >>, called |-> << >>, ran |-> << >>,
          err |-> StatusError("NotFound", << "unknown command", name >>)]
    ELSE LET r == CommandExecute(a.handlers[name], input) IN
         IF r.err # NoError
         THEN [out |-> << >>, called |-> << name >>, ran |-> IF r.ran THEN << name >> ELSE << >>,
               err |-> StatusError("Internal", ErrorText(r.err))]
         ELSE [out |-> r.out, called |-> << name >>, ran |-> << name >>, err |-> NoError]

\* ------------------------------------------------------------ host client
\* Client.Execute after the round trip: a transport or server error is
\* returned as it is, else the output envelope is unmarshalled into output.
ClientExecute(resp, outType) ==
    IF resp.err # NoError THEN [err |-> resp.err, output |-> << >>]
    ELSE IF ~UnmarshalToOk(resp.out[1], outType)
    THEN [err |-> Err("plain", << "mismatched message type" >>), output |-> << >>]
    ELSE [err |-> NoError, output |-> << Unmarshal(outType, resp.out[1].Value) >>]

\* Plugin.Exec with the bug of treating NotFound like any other status.
PluginExecNoSentinel(name, r) ==
    IF r.err # NoError
    THEN IF Code(r.err) # "Unknown"
         THEN [err |-> Err("plain", r.err[1].msg), output |-> r.output]
         ELSE [err |-> r.err, output |-> r.output]
    ELSE [err |-> NoError, output |-> r.output]

\* Plugin.Exec: NotFound becomes ErrUnknownCommand, another status error a
\* plain error with the status message, any other error is returned as is.
PluginExec(name, r) ==
    IF Code(r.err) = "NotFound"
    THEN [err |-> Err("ErrUnknownCommand", << "unknown command", name >>), output |-> r.output]
    ELSE IF r.err # NoError
    THEN IF Code(r.err) # "Unknown"
         THEN [err |-> Err("plain", r.err[1].msg), output |-> r.output]
         ELSE [err |-> r.err, output |-> r.output]
    ELSE [err |-> NoError, output |-> r.output]

\* Plugin.Close with the bug of returning at the first failing step.
PluginCloseShortCircuit(p, connErr, sigErr) ==
    IF ~p.command
    THEN [panic |-> TRUE, err |-> NoError, connTried |-> p.client, sigTried |-> FALSE]
    ELSE IF p.client /\ connErr # NoError
    THEN [panic |-> FALSE, err |-> connErr, connTried |-> TRUE, sigTried |-> FALSE]
    ELSE [panic |-> FALSE, err |-> IF p.process THEN sigErr ELSE NoError,
          connTried |-> p.client, sigTried |-> p.process]

\* Plugin.Close with the bug of closing the client without the nil check.
PluginCloseNoNilCheck(p, connErr, sigErr) ==
    IF ~p.command \/ ~p.client
    THEN [panic |-> TRUE, err |-> NoError, connTried |-> FALSE, sigTried |-> FALSE]
    ELSE [panic |-> FALSE, err |-> IF p.process THEN Join(connErr, sigErr) ELSE connErr,
          connTried |-> TRUE, sigTried |-> p.process]

\* Plugin.Close on the handle p, given what closing the connection and
\* signalling the process return when they are tried.  A handle without its
\* exec.Cmd makes p.command.Process a nil dereference.
PluginClose(p, connErr, sigErr) ==
    IF ~p.command
    THEN [panic |-> TRUE, err |-> NoError, connTried |-> p.client, sigTried |-> FALSE]
    ELSE LET e1 == IF p.client THEN Join(NoError, connErr) ELSE NoError
             e2 == IF p.process THEN Join(e1, sigErr) ELSE e1
         IN [panic |-> FALSE, err |-> e2, connTried |-> p.client, sigTried |-> p.process]

\* "/tmp/" + id + ".sock", the address startPlugin listens on, and
\* "unix:///tmp/" + socket + ".sock", the target NewClient dials.
SocketPath(id) == << "tmp", id, "sock" >>

ClientTarget(socket) == [scheme |-> "unix", path |-> << "tmp", socket, "sock" >>]

\* No target: the connection was not made.
NoTarget == [scheme |-> "", path |-> << >>]

\* The socket file a connection to the target connects to: the path of a
\* target of the unix scheme.
DialedPath(target) == IF target.scheme = "unix" THEN target.path ELSE << >>

\* An identifier generator with the bug of starting over on every call.
NewIDStartsOver(last) == 1

\* xid.New(): an identifier no earlier call has returned.
NewID(last) == last + 1

\* ------------------------------------------------------------------- state
VARIABLES
    path,       \* the argument of Use
    handles,    \* the handles of the host, where it calls Use several times
    upc,        \* where Use is: init, started, dialed, waited, returned
    socket,     \* the identifier xid.New gave Use (0 before)
    p,          \* the Plugin struct of Use
    ret,        \* what Use returned: whether the *Plugin is non-nil, and err
    statReply,  \* what the Stat call of Use returned, how many calls Use made, and whether the last reached the server
    conn,       \* the ClientConn: none, open, closed; and its target
    closes,     \* how many times the host called Close on its handle
    lastClose,  \* the most recent call of Plugin.Close
    calls,      \* the Exec call each caller has in flight
    lastExec,   \* the Exec call that returned last; ready: Close was not called before it returned
    execs,      \* how many Exec calls were issued
    proc,       \* the subprocess: none, running, exited
    pargs,      \* its positional arguments
    sigterm,    \* a termination signal reached it (the context of Run is done)
    ppc,        \* where Run/startPlugin is: run, built, group, exited
    api,        \* the API registered on the gRPC server
    build,      \* the info and the handlers startPlugin is building
    listener,   \* the listener: none, open, closed; and its address
    srv,        \* the gRPC server: new, serving, draining, stopped
    serveF,     \* the flow calling server.Serve: idle, serving, ret (nil), failed
    watchF,     \* the flow waiting for ctx.Done: waiting, stopping, ret
    groupErr,   \* the first error a flow of the errgroup returned
    exit,       \* the exit status of the subprocess (-1 while it runs)
    out,        \* what Run printed
    served,     \* how many Execute requests the server has handled
    lastStat    \* the most recent answer of API.Stat, and whether an Execute came before

hostVars == << path, handles, upc, socket, p, ret, statReply, conn, closes, lastClose, calls, lastExec, execs >>

pluginVars == << proc, pargs, sigterm, ppc, api, build, listener, srv, serveF, watchF, groupErr, exit, out, served, lastStat >>

vars == << hostVars, pluginVars >>

Callers == {"c1", "c2"}

ExecNames == {"", "test", "pingpong", "unknown"}

ExecInputs ==
    {Message("StringValue", "ping"), Message("StringValue", ""), Message("Timestamp", "now")}

ExecOutTypes == {"StringValue", "Timestamp"}

\* The calls of Exec the host makes: any name with any input and an output
\* of the input's type, as the commands of the repository have them; and for
\* the names of the plugins' commands also an output of the other type.
ExecRequests ==
    {r \in [name : ExecNames, input : ExecInputs, outType : ExecOutTypes] :
        \/ r.outType = r.input.type
        \/ r.name \in {"test", "pingpong"} /\ r.input.val # ""}

NoPlugin == [command |-> FALSE, process |-> FALSE, client |-> FALSE, info |-> NoInfo]

NoClose ==
    [by |-> "none", panic |-> FALSE, connTried |-> FALSE, sigTried |-> FALSE,
     connErr |-> NoError, sigErr |-> NoError, err |-> NoError]

NoCall ==
    [st |-> "idle", ready |-> FALSE, name |-> "", input |-> Message("StringValue", ""), outType |-> "StringValue",
     delivered |-> FALSE, peers |-> {}, resp |-> [out |-> << >>, called |-> << >>, ran |-> << >>, err |-> NoError],
     cerr |-> NoError, err |-> NoError, output |-> << >>]

NoStat == [ok |-> FALSE, info |-> NoInfo, afterExecute |-> FALSE]

Init ==
    /\ path \in Paths
    /\ upc = "init"
    /\ socket = 0
    /\ handles = << >>
    /\ p = NoPlugin
    /\ ret = [plugin |-> FALSE, err |-> NoError]
    /\ statReply = [called |-> FALSE, calls |-> 0, reached |-> FALSE, info |-> NoInfo, err |-> NoError]
    /\ conn = [st |-> "none", target |-> NoTarget]
    /\ closes = 0
    /\ lastClose = NoClose
    /\ calls = [c \in Callers |-> NoCall]
    /\ lastExec = NoCall
    /\ execs = 0
    /\ proc = "none"
    /\ pargs = << >>
    /\ sigterm = FALSE
    /\ ppc = "run"
    /\ api = NoAPI
    /\ build = [info |-> NoInfo, handlers |-> NoHandlers]
    /\ listener = [st |-> "none", addr |-> << >>]
    /\ srv = "new"
    /\ serveF = "idle"
    /\ watchF = "waiting"
    /\ groupErr = NoError
    /\ exit = -1
    /\ out = << >>
    /\ served = 0
    /\ lastStat = NoStat

\* The transport with the bug of dialing again for a call on a closed
\* connection.
ReachableAfterClose ==
    /\ conn.st # "none"
    /\ listener.st = "open" /\ listener.addr = DialedPath(conn.target)
    /\ srv = "serving"

\* ---------------------------------------------------------- the transport
\* An RPC on the connection reaches the server when the server serves on the
\* address the client dialed; it waits while the listener is open and Serve
\* has not begun; otherwise it fails with Unavailable.
Reachable ==
    /\ conn.st = "open"
    /\ listener.st = "open" /\ listener.addr = DialedPath(conn.target)
    /\ srv = "serving"

Waiting ==
    /\ conn.st = "open"
    /\ listener.st = "open" /\ listener.addr = DialedPath(conn.target)
    /\ srv = "new"

TransportError ==
    IF conn.st # "open"
    THEN StatusError("Canceled", << "grpc: the client connection is closing" >>)
    ELSE StatusError("Unavailable", << "connection error" >>)

\* What ClientConn.Close and Process.Signal return when Close tries them: a
\* connection closed before gives ErrClientConnClosing; a signal to a process
\* that has exited may or may not be reported as an error.
ConnCloseErr == IF conn.st = "closed" THEN Err("ErrClientConnClosing", << "closing" >>) ELSE NoError

SignalErrs ==
    IF proc = "running" THEN {NoError}
    ELSE {NoError, Err("ErrProcessDone", << "os: process already finished" >>)}

\* Plugin.Close with its effects: the connection is closed when the handle
\* has a client, SIGTERM reaches the subprocess when it has a running process.
Close(by, sigErr) ==
    LET r == PluginClose(p, ConnCloseErr, sigErr) IN
    /\ lastClose' = [by |-> by, panic |-> r.panic, connTried |-> r.connTried,
                     sigTried |-> r.sigTried,
                     connErr |-> IF r.connTried THEN ConnCloseErr ELSE NoError,
                     sigErr |-> IF r.sigTried THEN sigErr ELSE NoError,
                     err |-> r.err]
    /\ conn' = IF r.connTried THEN [conn EXCEPT !.st = "closed"] ELSE conn
    /\ sigterm' = (sigterm \/ (r.sigTried /\ proc = "running"))

\* ------------------------------------------------------------------- Use
\* xid.New and cmd.Start: the subprocess runs path with the identifier as its
\* only argument, or Use fails when there is no binary at path.
UseStart ==
    /\ upc = "init"
    /\ socket' = NewID(socket)
    /\ IF HasBinary(path)
       THEN /\ proc' = "running"
            /\ pargs' = << socket' >>
            /\ p' = [p EXCEPT !.command = TRUE, !.process = TRUE]
            /\ upc' = "started"
            /\ ret' = ret
       ELSE /\ ret' = [plugin |-> FALSE, err |-> Err("plain", << "failed to start plugin at", path >>)]
            /\ upc' = "returned"
            /\ UNCHANGED << proc, pargs, p >>
    /\ UNCHANGED << path, handles, statReply, conn, closes, lastClose, calls, lastExec, execs >>
    /\ UNCHANGED << sigterm, ppc, api, build, listener, srv, serveF, watchF, groupErr, exit, out, served, lastStat >>

\* plugin.NewClient(socket): the client, or the error of grpc.NewClient.
UseDial ==
    /\ upc = "started"
    /\ \E ok \in BOOLEAN :
          IF ok
          THEN /\ conn' = [st |-> "open", target |-> ClientTarget(socket)]
               /\ p' = [p EXCEPT !.client = TRUE]
               /\ upc' = "dialed"
               /\ ret' = ret
          ELSE /\ ret' = [plugin |-> FALSE, err |-> Err("plain", << "failed to dial plugin", Base(path) >>)]
               /\ upc' = "returned"
               /\ UNCHANGED << conn, p >>
    /\ UNCHANGED << path, handles, socket, statReply, closes, lastClose, calls, lastExec, execs >>
    /\ UNCHANGED pluginVars

\* The one tick of the one-second ticker.
UseWait ==
    /\ upc = "dialed"
    /\ upc' = "waited"
    /\ UNCHANGED << path, handles, socket, p, ret, statReply, conn, closes, lastClose, calls, lastExec, execs >>
    /\ UNCHANGED pluginVars

\* The check of Use that the plugin reports the base name of its path.
UseVerifyNothing(name, info) == TRUE

UseVerify(name, info) == info.Name = name

\* Use with the bug of returning the error of Stat alone.
UseStatFailureDropsClose(closeErr, statErr) == statErr

\* What Use returns when Stat failed: errors.Join(p.Close(), err).
UseStatFailure(closeErr, statErr) == Join(closeErr, statErr)

\* Use with the bug of waiting another tick and calling Stat again when the
\* plugin does not answer.
UseStatRetries ==
    /\ upc = "waited"
    /\ ~Waiting
    /\ IF Reachable
       THEN LET info == APIStat(api) IN
            /\ upc' = "returned"
            /\ statReply' = [called |-> TRUE, calls |-> statReply.calls + 1, reached |-> TRUE, info |-> info, err |-> NoError]
            /\ lastStat' = [ok |-> TRUE, info |-> info, afterExecute |-> served > 0]
            /\ IF ~UseVerify(Base(path), info)
               THEN /\ ret' = [plugin |-> FALSE,
                               err |-> Err("ErrUnexpectedName", << "expected", Base(path), "got", info.Name >>)]
                    /\ p' = p
               ELSE /\ p' = [p EXCEPT !.info = info]
                    /\ ret' = [plugin |-> TRUE, err |-> NoError]
       ELSE /\ upc' = "dialed"
            /\ statReply' = [called |-> TRUE, calls |-> statReply.calls + 1, reached |-> FALSE, info |-> NoInfo, err |-> TransportError]
            /\ UNCHANGED << p, ret, lastStat >>
    /\ UNCHANGED << conn, lastClose, sigterm >>
    /\ UNCHANGED << path, handles, socket, closes, calls, lastExec, execs >>
    /\ UNCHANGED << proc, pargs, ppc, api, build, listener, srv, serveF, watchF, groupErr, exit, out, served >>

\* p.client.Stat and what follows: on an error Close and the joined error, on
\* another name than the base of path ErrUnexpectedName, else the handle.
UseStat ==
    /\ upc = "waited"
    /\ ~Waiting
    /\ upc' = "returned"
    /\ IF Reachable
       THEN LET info == APIStat(api) IN
            /\ statReply' = [called |-> TRUE, calls |-> statReply.calls + 1, reached |-> TRUE, info |-> info, err |-> NoError]
            /\ lastStat' = [ok |-> TRUE, info |-> info, afterExecute |-> served > 0]
            /\ IF ~UseVerify(Base(path), info)
               THEN /\ ret' = [plugin |-> FALSE,
                               err |-> Err("ErrUnexpectedName", << "expected", Base(path), "got", info.Name >>)]
                    /\ p' = p
               ELSE /\ p' = [p EXCEPT !.info = info]
                    /\ ret' = [plugin |-> TRUE, err |-> NoError]
            /\ UNCHANGED << conn, lastClose, sigterm >>
       ELSE LET statErr == TransportError IN
            /\ statReply' = [called |-> TRUE, calls |-> statReply.calls + 1, reached |-> FALSE, info |-> NoInfo, err |-> statErr]
            /\ \E sigErr \in SignalErrs :
                  /\ Close("Use", sigErr)
                  /\ ret' = [plugin |-> FALSE, err |-> UseStatFailure(lastClose'.err, statErr)]
            /\ UNCHANGED << p, lastStat >>
    /\ UNCHANGED << path, handles, socket, closes, calls, lastExec, execs >>
    /\ UNCHANGED << proc, pargs, ppc, api, build, listener, srv, serveF, watchF, groupErr, exit, out, served >>

\* ------------------------------------------------- the host uses its handle
\* The host has the *Plugin that Use returned.
HasHandle == upc = "returned" /\ ret.plugin

\* The host calls Plugin.Close.
HostClose ==
    /\ HasHandle
    /\ closes < MaxCloses
    /\ closes' = closes + 1
    /\ \E sigErr \in SignalErrs : Close("host", sigErr)
    /\ UNCHANGED << path, handles, upc, socket, p, ret, statReply, calls, lastExec, execs >>
    /\ UNCHANGED << proc, pargs, ppc, api, build, listener, srv, serveF, watchF, groupErr, exit, out, served, lastStat >>

\* A caller calls Plugin.Exec: the request is sent, or Exec fails at once
\* when the server cannot be reached.  The callers are interchangeable, so
\* the second one is taken only while the first has a call in flight.
ExecCall(c) ==
    /\ HasHandle
    /\ execs < MaxExecs
    /\ calls[c].st = "idle"
    /\ c = "c1" \/ calls["c1"].st = "sent"
    /\ ~Waiting
    /\ execs' = execs + 1
    /\ \E req \in ExecRequests :
          LET call == [NoCall EXCEPT !.ready = (closes = 0), !.name = req.name,
                                     !.input = req.input, !.outType = req.outType]
              name == req.name
          IN
          IF Reachable
          THEN /\ calls' = [calls EXCEPT ![c] = [call EXCEPT !.st = "sent", !.delivered = TRUE]]
               /\ lastExec' = lastExec
          ELSE LET r == PluginExec(name, [err |-> TransportError, output |-> << >>]) IN
               /\ lastExec' = [call EXCEPT !.st = "done", !.cerr = TransportError, !.err = r.err]
               /\ calls' = calls
    /\ UNCHANGED << path, handles, upc, socket, p, ret, statReply, conn, closes, lastClose >>
    /\ UNCHANGED pluginVars

\* The names of the calls of other callers that are in flight.
PeerNames(c) == {calls[o].name : o \in {q \in Callers \ {c} : calls[q].st = "sent"}}

\* Execute with the bug of recording the executed command in the Info.
ExecuteMutatesInfo(c) ==
    /\ calls[c].st = "sent"
    /\ LET call == calls[c]
           resp == APIExecute(api, call.name, AnyNew(call.input))
           seen == IF conn.st = "open" THEN resp
                   ELSE [out |-> << >>, called |-> << >>, ran |-> << >>, err |-> TransportError]
           cr == ClientExecute(seen, call.outType)
           r == PluginExec(call.name, cr)
       IN lastExec' = [call EXCEPT !.st = "done", !.ready = (call.ready /\ closes = 0),
                                   !.peers = PeerNames(c),
                                   !.resp = resp, !.cerr = cr.err,
                                   !.err = r.err, !.output = r.output]
    /\ calls' = [calls EXCEPT ![c] = NoCall]
    /\ served' = served + 1
    /\ api' = [api EXCEPT !.info.Commands = Append(@, calls[c].name)]
    /\ UNCHANGED << path, handles, upc, socket, p, ret, statReply, conn, closes, lastClose, execs >>
    /\ UNCHANGED << proc, pargs, sigterm, ppc, build, listener, srv, serveF, watchF, groupErr, exit, out, lastStat >>

\* Execute with the bug of answering a call with the result of another call
\* that is in flight.
ExecuteCrossTalk(c) ==
    /\ calls[c].st = "sent"
    /\ LET call == calls[c]
           others == {q \in Callers \ {c} : calls[q].st = "sent"}
           req == IF others = {} THEN call ELSE calls[CHOOSE q \in others : TRUE]
           resp == APIExecute(api, req.name, AnyNew(req.input))
           seen == IF conn.st = "open" THEN resp
                   ELSE [out |-> << >>, called |-> << >>, ran |-> << >>, err |-> TransportError]
           cr == ClientExecute(seen, call.outType)
           r == PluginExec(call.name, cr)
       IN lastExec' = [call EXCEPT !.st = "done", !.ready = (call.ready /\ closes = 0),
                                   !.peers = PeerNames(c),
                                   !.resp = resp, !.cerr = cr.err,
                                   !.err = r.err, !.output = r.output]
    /\ calls' = [calls EXCEPT ![c] = NoCall]
    /\ served' = served + 1
    /\ UNCHANGED << path, handles, upc, socket, p, ret, statReply, conn, closes, lastClose, execs >>
    /\ UNCHANGED << proc, pargs, sigterm, ppc, api, build, listener, srv, serveF, watchF, groupErr, exit, out, lastStat >>

\* The server handles an Execute request and Exec returns to its caller: the
\* answer of the server, or Canceled when the connection was closed before
\* the answer was received.
Execute(c) ==
    /\ calls[c].st = "sent"
    /\ LET call == calls[c]
           resp == APIExecute(api, call.name, AnyNew(call.input))
           seen == IF conn.st = "open" THEN resp
                   ELSE [out |-> << >>, called |-> << >>, ran |-> << >>, err |-> TransportError]
           cr == ClientExecute(seen, call.outType)
           r == PluginExec(call.name, cr)
       IN lastExec' = [call EXCEPT !.st = "done", !.ready = (call.ready /\ closes = 0),
                                   !.peers = PeerNames(c),
                                   !.resp = resp, !.cerr = cr.err,
                                   !.err = r.err, !.output = r.output]
    /\ calls' = [calls EXCEPT ![c] = NoCall]
    /\ served' = served + 1
    /\ UNCHANGED << path, handles, upc, socket, p, ret, statReply, conn, closes, lastClose, execs >>
    /\ UNCHANGED << proc, pargs, sigterm, ppc, api, build, listener, srv, serveF, watchF, groupErr, exit, out, lastStat >>

\* Any client of the socket calls Stat on the serving API.
Stat ==
    /\ srv = "serving"
    /\ lastStat' = [ok |-> TRUE, info |-> APIStat(api), afterExecute |-> served > 0]
    /\ UNCHANGED hostVars
    /\ UNCHANGED << proc, pargs, sigterm, ppc, api, build, listener, srv, serveF, watchF, groupErr, exit, out, served >>

\* ------------------------------------------------ the subprocess: Run
\* The plugin whose binary Use started.
Config == Binary(path).config

Version == Binary(path).version

\* Run with the bug of returning whatever the command returned.
ExitsIgnoresError(err) ==
    /\ proc' = "exited"
    /\ ppc' = "exited"
    /\ exit' = 0
    /\ out' = << >>

\* The end of Run: on an error of cmd.ExecuteContext it prints "failed to
\* start plugin" with the name and the error and exits with status 1; else
\* it returns and the process ends with status 0.
Exits(err) ==
    /\ proc' = "exited"
    /\ ppc' = "exited"
    /\ exit' = (IF err # NoError THEN 1 ELSE 0)
    /\ out' = IF err # NoError
              THEN << "failed to start plugin", Config.Name, ErrorText(err) >>
              ELSE << >>

\* The first k command descriptors of the configuration.
FirstCommands(k) == SubSeq(Config.Commands, 1, k)

\* Run checks cobra.ExactArgs(1); startPlugin begins with the Info holding
\* the name and the version and with no handlers.
PluginBuild ==
    /\ proc = "running" /\ ppc = "run"
    /\ IF Len(pargs) # 1
       THEN /\ Exits(Err("cobra", << "accepts 1 arg(s), received", Len(pargs) >>))
            /\ build' = build
       ELSE /\ build' = [info |-> BuildInfo([Config EXCEPT !.Commands = << >>], Version),
                         handlers |-> NoHandlers]
            /\ ppc' = "building"
            /\ UNCHANGED << proc, exit, out >>
    /\ UNCHANGED hostVars
    /\ UNCHANGED << pargs, sigterm, api, listener, srv, serveF, watchF, groupErr, served, lastStat >>

\* One round of the loop over config.Commands: the handler of the command
\* is stored under its name and the name is appended to info.Commands.
PluginCommand ==
    /\ proc = "running" /\ ppc = "building"
    /\ Len(build.info.Commands) < Len(Config.Commands)
    /\ LET k == Len(build.info.Commands) + 1 IN
          build' = [info |-> [build.info EXCEPT !.Commands = BuildCommands(FirstCommands(k))],
                    handlers |-> BuildHandlers(FirstCommands(k))]
    /\ UNCHANGED hostVars
    /\ UNCHANGED << proc, pargs, sigterm, ppc, api, listener, srv, serveF, watchF, groupErr, exit, out, served, lastStat >>

\* startPlugin with the bug of registering the API before the loop over the
\* commands has ended.
PluginRegisterEarly ==
    /\ proc = "running" /\ ppc = "building"
    /\ api' = NewAPI(build.info, build.handlers)
    /\ ppc' = "built"
    /\ UNCHANGED hostVars
    /\ UNCHANGED << proc, pargs, sigterm, build, listener, srv, serveF, watchF, groupErr, exit, out, served, lastStat >>

\* After the loop: plugin.NewAPI(info, handlers).Register(server).
PluginRegister ==
    /\ proc = "running" /\ ppc = "building"
    /\ Len(build.info.Commands) = Len(Config.Commands)
    /\ api' = NewAPI(build.info, build.handlers)
    /\ ppc' = "built"
    /\ UNCHANGED hostVars
    /\ UNCHANGED << proc, pargs, sigterm, build, listener, srv, serveF, watchF, groupErr, exit, out, served, lastStat >>

\* net.Listen("unix", "/tmp/" + id + ".sock"): the listener, or startPlugin
\* returns the error and Run prints it and exits with status 1.
PluginListen ==
    /\ proc = "running" /\ ppc = "built"
    /\ \E ok \in BOOLEAN :
          IF ok
          THEN /\ listener' = [st |-> "open", addr |-> SocketPath(pargs[1])]
               /\ ppc' = "group"
               /\ UNCHANGED << proc, exit, out >>
          ELSE /\ Exits(Err("listen", << "listen unix", SocketPath(pargs[1]) >>))
               /\ listener' = listener
    /\ UNCHANGED hostVars
    /\ UNCHANGED << pargs, sigterm, api, build, srv, serveF, watchF, groupErr, served, lastStat >>

\* The first flow calls server.Serve(listener).  After GracefulStop was
\* called Serve closes the listener and returns ErrServerStopped.
ServeStart ==
    /\ proc = "running" /\ ppc = "group" /\ serveF = "idle"
    /\ IF srv = "new"
       THEN /\ srv' = "serving"
            /\ serveF' = "serving"
            /\ UNCHANGED << listener, groupErr >>
       ELSE /\ serveF' = "failed"
            /\ listener' = [listener EXCEPT !.st = "closed"]
            /\ groupErr' = IF groupErr = NoError
                           THEN Err("ErrServerStopped", << "grpc: the server has been stopped" >>)
                           ELSE groupErr
            /\ srv' = srv
    /\ UNCHANGED hostVars
    /\ UNCHANGED << proc, pargs, sigterm, ppc, api, build, watchF, exit, out, served, lastStat >>

\* Serve returns nil once the graceful stop has finished.
ServeReturn ==
    /\ proc = "running" /\ ppc = "group" /\ serveF = "serving"
    /\ srv = "stopped"
    /\ serveF' = "ret"
    /\ UNCHANGED hostVars
    /\ UNCHANGED << proc, pargs, sigterm, ppc, api, build, listener, srv, watchF, groupErr, exit, out, served, lastStat >>

\* The context of the watcher with the bug of not being derived from the
\* context of the signals.
CtxDoneOnErrorOnly == groupErr # NoError

\* The context of the errgroup is done after a termination signal or after
\* a flow returned an error.
CtxDone == sigterm \/ groupErr # NoError

\* The second flow: after ctx.Done it calls server.GracefulStop, which
\* refuses new requests and closes the listener Serve was given (the socket
\* file goes with it); a listener Serve was not given yet stays open.
WatchStop ==
    /\ proc = "running" /\ ppc = "group" /\ watchF = "waiting"
    /\ CtxDone
    /\ watchF' = "stopping"
    /\ srv' = "draining"
    /\ listener' = IF serveF = "serving" THEN [listener EXCEPT !.st = "closed"] ELSE listener
    /\ UNCHANGED hostVars
    /\ UNCHANGED << proc, pargs, sigterm, ppc, api, build, serveF, groupErr, exit, out, served, lastStat >>

\* A request the server has accepted and not answered yet.
InFlight == \E c \in Callers : calls[c].st = "sent"

\* GracefulStop returns when no request is in flight; then listener.Close()
\* is called: on a listener that is closed already it returns an error, and
\* else it closes the listener and removes the socket file.
WatchReturn ==
    /\ proc = "running" /\ ppc = "group" /\ watchF = "stopping"
    /\ ~InFlight
    /\ watchF' = "ret"
    /\ srv' = "stopped"
    /\ LET closeErr == IF listener.st = "closed"
                       THEN Err("ErrNetClosing", << "use of closed network connection" >>)
                       ELSE NoError
       IN groupErr' = IF groupErr = NoError THEN closeErr ELSE groupErr
    /\ listener' = [listener EXCEPT !.st = "closed"]
    /\ UNCHANGED hostVars
    /\ UNCHANGED << proc, pargs, sigterm, ppc, api, build, serveF, exit, out, served, lastStat >>

\* group.Wait returns the first error; Run prints it and exits with status
\* 1, or returns when there is none.
GroupWait ==
    /\ proc = "running" /\ ppc = "group"
    /\ serveF \in {"ret", "failed"} /\ watchF = "ret"
    /\ Exits(groupErr)
    /\ UNCHANGED hostVars
    /\ UNCHANGED << pargs, sigterm, api, build, listener, srv, serveF, watchF, groupErr, served, lastStat >>

Next ==
    \/ UseStart
    \/ UseDial
    \/ UseWait
    \/ UseStat
    \/ HostClose
    \/ \E c \in Callers : ExecCall(c)
    \/ \E c \in Callers : Execute(c)
    \/ Stat
    \/ PluginBuild
    \/ PluginCommand
    \/ PluginRegister
    \/ PluginListen
    \/ ServeStart
    \/ ServeReturn
    \/ WatchStop
    \/ WatchReturn
    \/ GroupWait

Spec == Init /\ [][Next]_vars

\* ------------------------------------------- Close on a partial handle
\* The handles on which only part of the setup of Use was done: the exec.Cmd
\* is there, the client or the started process (or both) is missing.
PartialHandles ==
    {[NoPlugin EXCEPT !.command = TRUE, !.process = pr, !.client = cl] :
        pr \in BOOLEAN, cl \in BOOLEAN} \ {[NoPlugin EXCEPT !.command = TRUE, !.process = TRUE, !.client = TRUE]}

InitPartial ==
    /\ path \in {q \in Paths : HasBinary(q)}
    /\ upc = "partial"
    /\ socket = 1
    /\ handles = << >>
    /\ p \in PartialHandles
    /\ ret = [plugin |-> FALSE, err |-> NoError]
    /\ statReply = [called |-> FALSE, calls |-> 0, reached |-> FALSE, info |-> NoInfo, err |-> NoError]
    /\ conn = IF p.client THEN [st |-> "open", target |-> ClientTarget(socket)]
              ELSE [st |-> "none", target |-> NoTarget]
    /\ closes = 0
    /\ lastClose = NoClose
    /\ calls = [c \in Callers |-> NoCall]
    /\ lastExec = NoCall
    /\ execs = 0
    /\ proc = IF p.process THEN "running" ELSE "none"
    /\ pargs = IF p.process THEN << socket >> ELSE << >>
    /\ sigterm = FALSE
    /\ ppc = "run"
    /\ api = NoAPI
    /\ build = [info |-> NoInfo, handlers |-> NoHandlers]
    /\ listener = [st |-> "none", addr |-> << >>]
    /\ srv = "new"
    /\ serveF = "idle"
    /\ watchF = "waiting"
    /\ groupErr = NoError
    /\ exit = -1
    /\ out = << >>
    /\ served = 0
    /\ lastStat = NoStat

\* Plugin.Close is called on the partial handle.
PartialClose ==
    /\ upc = "partial"
    /\ closes < MaxCloses
    /\ closes' = closes + 1
    /\ \E sigErr \in SignalErrs : Close("partial", sigErr)
    /\ UNCHANGED << path, handles, upc, socket, p, ret, statReply, calls, lastExec, execs >>
    /\ UNCHANGED << proc, pargs, ppc, api, build, listener, srv, serveF, watchF, groupErr, exit, out, served, lastStat >>

NextPartial ==
    \/ PartialClose
    \/ PluginBuild
    \/ PluginCommand
    \/ PluginRegister
    \/ PluginListen
    \/ ServeStart
    \/ ServeReturn
    \/ WatchStop
    \/ WatchReturn
    \/ GroupWait

SpecPartial == InitPartial /\ [][NextPartial]_vars

\* ================================================================== claims
\* The Exec call that returned last was made on a ready handle: Use had
\* returned the handle and Close had not been called when Exec returned.
ExecOnReady == lastExec.st = "done" /\ lastExec.ready

\* The descriptors of the Config with the given name.
Descriptors(name) == {i \in 1..Len(Config.Commands) : Config.Commands[i].Use = name}

\* The last descriptor of the Config with the given name.
LastDescriptor(name) ==
    Config.Commands[CHOOSE i \in Descriptors(name) : \A j \in Descriptors(name) : j <= i]

\* C1 as stated: for every command of the config and every input of its
\* declared input type, Exec on a ready handle returns no error and writes
\* what the command's handler returns for the input.
C1_AsStated ==
    ExecOnReady =>
        \A i \in Descriptors(lastExec.name) :
            LET d == Config.Commands[i] IN
            lastExec.input.type = d.Input =>
                /\ lastExec.err = NoError
                /\ lastExec.output = << Run(d.Run, lastExec.input).out >>

\* C1 amended: for every non-empty name of the config, d being the last
\* descriptor of that name, every input of d's input type for which d's
\* handler returns no error, and an output of d's output type, Exec on a
\* ready handle returns no error and writes what the handler returns.
C1_ExecReturnsHandlerOutput ==
    (ExecOnReady /\ lastExec.name # "" /\ Descriptors(lastExec.name) # {}) =>
        LET d == LastDescriptor(lastExec.name)
            r == Run(d.Run, lastExec.input)
        IN (lastExec.input.type = d.Input /\ r.err = NoError /\ lastExec.outType = d.Output) =>
               /\ lastExec.err = NoError
               /\ lastExec.output = << r.out >>

C1_Witness ==
    /\ ExecOnReady
    /\ lastExec.name = "pingpong"
    /\ lastExec.input = Message("StringValue", "ping")
    /\ lastExec.err = NoError
    /\ lastExec.output = << Message("StringValue", "pong") >>

\* C2 as stated: Exec on a ready handle with a name the plugin has not
\* registered returns ErrUnknownCommand, whatever the input.
C2_AsStated ==
    (ExecOnReady /\ Descriptors(lastExec.name) = {}) =>
        Is(lastExec.err, "ErrUnknownCommand")

\* C2 amended: Exec on a ready handle with a non-empty name the plugin has
\* not registered returns ErrUnknownCommand, whatever the input.
C2_UnknownCommand ==
    (ExecOnReady /\ lastExec.name # "" /\ Descriptors(lastExec.name) = {}) =>
        /\ Is(lastExec.err, "ErrUnknownCommand")
        /\ lastExec.output = << >>

C2_Witness ==
    /\ ExecOnReady
    /\ lastExec.name = "unknown"
    /\ Is(lastExec.err, "ErrUnknownCommand")

\* C3: Exec with the empty name fails with the server's InvalidArgument
\* status, whose message Exec returns as its error; the error is never
\* ErrUnknownCommand, for every input, also when the registry has a command
\* with the empty name.
C3_EmptyNameInvalidArgument ==
    (ExecOnReady /\ lastExec.name = "") =>
        /\ Code(lastExec.resp.err) = "InvalidArgument"
        /\ Code(lastExec.cerr) = "InvalidArgument"
        /\ lastExec.err = Err("plain", << "missing command name" >>)
        /\ ~Is(lastExec.err, "ErrUnknownCommand")
        /\ lastExec.resp.ran = << >>

C3_Witness ==
    /\ ExecOnReady
    /\ lastExec.name = ""
    /\ "" \in DOMAIN api.handlers
    /\ Code(lastExec.resp.err) = "InvalidArgument"

\* Use got an answer from Stat with another name than the base of path.
NameMismatch ==
    /\ upc = "returned"
    /\ statReply.called /\ statReply.err = NoError
    /\ statReply.info.Name # Base(path)

\* C4: when the plugin reports another name than the base of the path, Use
\* fails with ErrUnexpectedName, and when it returns the connection is
\* closed and SIGTERM was sent to the subprocess.
C4_MismatchClosesHandle ==
    NameMismatch =>
        /\ ~ret.plugin
        /\ Is(ret.err, "ErrUnexpectedName")
        /\ conn.st = "closed"
        /\ lastClose.sigTried

\* C5: Use returns a handle only when the process was started, the client
\* made, Stat answered and the name it gave is the base of the path; when Use
\* fails it returns no handle; the info of the handle is what that Stat call
\* returned, in every later state.
C5_HandleOnlyWhenVerified ==
    /\ ret.plugin =>
          /\ upc = "returned" /\ ret.err = NoError
          /\ p.command /\ p.process /\ p.client
          /\ proc # "none" /\ conn.st # "none"
          /\ statReply.called /\ statReply.err = NoError
          /\ statReply.info.Name = Base(path)
          /\ p.info = statReply.info
    /\ (upc = "returned" /\ ~ret.plugin) => ret.err # NoError
    /\ upc # "returned" => (~ret.plugin /\ ret.err = NoError)

C5_Witness ==
    /\ ret.plugin
    /\ closes > 0
    /\ lastExec.st = "done"
    /\ p.info.Commands = << "", "test", "pingpong", "test" >>

\* C6: when the Stat call of Use fails, Use calls Close (the connection is
\* closed and the subprocess signalled) and returns an error made of the
\* errors of Close followed by the error of Stat.
C6_StatFailureClosesAndJoins ==
    (upc = "returned" /\ statReply.called /\ statReply.err # NoError) =>
        /\ ~ret.plugin
        /\ lastClose.by = "Use"
        /\ lastClose.connTried /\ lastClose.sigTried
        /\ conn.st = "closed"
        /\ ret.err = lastClose.connErr \o lastClose.sigErr \o statReply.err

C6_Witness ==
    /\ upc = "returned"
    /\ statReply.called /\ statReply.err # NoError
    /\ lastClose.by = "Use"
    /\ lastClose.sigErr # NoError
    /\ Len(ret.err) = 2

\* C7: whenever Use fails after it has started the subprocess, it has sent
\* SIGTERM to the subprocess before it returns, and its error holds the
\* errors of the cleanup.
C7_FailureAfterSpawnCleansUp ==
    (upc = "returned" /\ ~ret.plugin /\ proc # "none") =>
        /\ lastClose.sigTried
        /\ \A i \in 1..Len(lastClose.err) : \E j \in 1..Len(ret.err) : ret.err[j] = lastClose.err[i]

\* C8: every call of Close on a handle tries both steps, also when closing
\* the connection fails, and returns the errors of both steps (nil only when
\* both succeeded); the connection is closed and a running subprocess has
\* received the signal.
C8_CloseTriesBothSteps ==
    lastClose.by # "none" =>
        /\ ~lastClose.panic
        /\ lastClose.connTried /\ lastClose.sigTried
        /\ lastClose.err = lastClose.connErr \o lastClose.sigErr
        /\ (lastClose.err = NoError) <=> (lastClose.connErr = NoError /\ lastClose.sigErr = NoError)
        /\ conn.st = "closed"
        /\ proc = "running" => sigterm

C8_Witness ==
    /\ lastClose.by = "host"
    /\ lastClose.connErr # NoError
    /\ lastClose.sigTried
    /\ Len(lastClose.err) = 2

\* C9: Close on a handle without client or without process does not panic;
\* it skips the missing step, does the other one, and returns the errors of
\* the steps it did.
C9_PartialCloseSkipsMissing ==
    (lastClose.by = "partial") =>
        /\ ~lastClose.panic
        /\ lastClose.connTried = p.client
        /\ lastClose.sigTried = p.process
        /\ lastClose.err = lastClose.connErr \o lastClose.sigErr
        /\ p.client => conn.st = "closed"
        /\ ~p.client => (conn.st = "none" /\ lastClose.connErr = NoError)
        /\ (p.process /\ proc = "running") => sigterm
        /\ ~p.process => (~sigterm /\ lastClose.sigErr = NoError)

C9_Witness ==
    /\ lastClose.by = "partial"
    /\ ~p.client /\ p.process
    /\ lastClose.sigTried /\ ~lastClose.connTried
    /\ lastClose.sigErr # NoError

\* C10: every answer of Stat is the name, the version and the command list
\* the API was made with, before and after Execute requests.
C10_StatIsConstant ==
    /\ lastStat.ok => lastStat.info = BuildInfo(Config, Version)
    /\ api.built => APIStat(api) = BuildInfo(Config, Version)

C10_Witness ==
    /\ lastStat.ok
    /\ lastStat.afterExecute
    /\ lastExec.st = "done" /\ lastExec.resp.err # NoError
    /\ served > 1

\* The Exec call that returned last named a command of the registry: a
\* non-empty name some descriptor of the Config has.
ExecRegistered == ExecOnReady /\ lastExec.name # "" /\ Descriptors(lastExec.name) # {}

\* C11: when the handler of a registered command fails, Execute of the
\* server fails with the Internal status whose message is the text of the
\* handler's error, and Exec returns a plain error with only that text and
\* no output; the error is never ErrUnknownCommand, also when the handler
\* returned a NotFound status of its own.
C11_HandlerErrorIsInternal ==
    ExecRegistered =>
        LET d == LastDescriptor(lastExec.name)
            r == Run(d.Run, lastExec.input)
        IN (lastExec.input.type = d.Input /\ r.err # NoError) =>
               /\ lastExec.resp.ran = << lastExec.name >>
               /\ lastExec.resp.err = StatusError("Internal", ErrorText(r.err))
               /\ Code(lastExec.cerr) = "Internal"
               /\ lastExec.err = Err("plain", ErrorText(r.err))
               /\ ~Is(lastExec.err, "ErrUnknownCommand")
               /\ lastExec.output = << >>

C11_Witness ==
    /\ ExecRegistered
    /\ lastExec.name = "test"
    /\ lastExec.resp.ran = << "test" >>
    /\ Code(Run(LastDescriptor("test").Run, lastExec.input).err) = "NotFound"
    /\ Code(lastExec.resp.err) = "Internal"
    /\ lastExec.err = Err("plain", << "rpc error: code =", "NotFound", "desc =", "no entry for", "" >>)

\* C12: Exec for a registered command with an input that is not of the
\* command's input type fails in Command.Execute with the type mismatch
\* before the handler is invoked, and Exec returns a plain error with that
\* text and no output, not ErrUnknownCommand.
C12_WrongInputTypeFails ==
    ExecRegistered =>
        LET d == LastDescriptor(lastExec.name) IN
        lastExec.input.type # d.Input =>
            /\ lastExec.resp.ran = << >>
            /\ lastExec.resp.err =
                   StatusError("Internal", << "invalid input type for command", lastExec.name >>)
            /\ lastExec.err = Err("plain", << "invalid input type for command", lastExec.name >>)
            /\ ~Is(lastExec.err, "ErrUnknownCommand")
            /\ lastExec.output = << >>

C12_Witness ==
    /\ ExecRegistered
    /\ path = PathTest
    /\ lastExec.name = "test"
    /\ lastExec.input = Message("StringValue", "ping")
    /\ lastExec.resp.ran = << >>
    /\ lastExec.err # NoError
    /\ ~Is(lastExec.err, "ErrUnknownCommand")

\* A registered name: non-empty and the name of some descriptor.
Registered(name) == name # "" /\ Descriptors(name) # {}

\* The Exec call that returned last did so while a call of another caller
\* for another registered name was in flight.
ExecOverlapped ==
    ExecRegistered /\ \E n \in lastExec.peers : n # lastExec.name /\ Registered(n)

\* C13: Exec calls in flight together on one handle do not disturb each
\* other: the server stays up while a call is in flight, so each completes,
\* and every call for a registered name, whatever else is or was in flight,
\* returns what its own command's handler gives for its own input: the
\* handler's output, the handler's error, or the type mismatch of its own
\* input; only its own handler was invoked for it.
C13_ConcurrentExecsIndependent ==
    /\ InFlight => (proc = "running" /\ srv \in {"serving", "draining"})
    /\ ExecRegistered =>
           LET d == LastDescriptor(lastExec.name)
               r == Run(d.Run, lastExec.input)
           IN /\ lastExec.resp.ran \in {<< >>, << lastExec.name >>}
              /\ lastExec.input.type # d.Input =>
                     lastExec.err = Err("plain", << "invalid input type for command", lastExec.name >>)
              /\ (lastExec.input.type = d.Input /\ r.err # NoError) =>
                     /\ lastExec.err = Err("plain", ErrorText(r.err))
                     /\ lastExec.output = << >>
              /\ (lastExec.input.type = d.Input /\ r.err = NoError /\ lastExec.outType = d.Output) =>
                     /\ lastExec.err = NoError
                     /\ lastExec.output = << r.out >>
              /\ (lastExec.input.type = d.Input /\ r.err = NoError /\ lastExec.outType # d.Output) =>
                     /\ lastExec.err # NoError
                     /\ lastExec.output = << >>

\* The call for "pingpong" has returned its own result while the call of the
\* other caller for "test" is in flight.
C13_Witness ==
    /\ ExecOverlapped
    /\ lastExec.name = "pingpong"
    /\ lastExec.peers = {"test"}
    /\ \E c \in Callers : calls[c].st = "sent" /\ calls[c].name = "test"
    /\ lastExec.input = Message("StringValue", "ping")
    /\ lastExec.err = NoError
    /\ lastExec.output = << Message("StringValue", "pong") >>

\* The graceful stop of a serving server is under way: GracefulStop was
\* called after Serve had begun and has not returned.
StoppingServing == srv = "draining" /\ serveF = "serving"

\* C14: after a termination signal on a serving plugin the requests in
\* flight are completed before the stop finishes, requests that come after
\* the stop was requested are refused without running a handler, and the
\* socket is there until the graceful stop has finished.
C14_GracefulStopThenRemove ==
    /\ srv = "stopped" => ~InFlight
    /\ exit # -1 => ~InFlight
    /\ (lastExec.st = "done" /\ ~lastExec.delivered) =>
           (lastExec.resp.ran = << >> /\ lastExec.err # NoError)
    /\ StoppingServing => listener.st = "open"

\* Both flows of the errgroup have returned and group.Wait has given its
\* result to Run.
GroupJoined == ppc = "exited" /\ watchF = "ret" /\ serveF \in {"ret", "failed"}

\* C15: the join of the serve flow and the watcher is fail-fast and returns
\* the first error: a failure of Serve ends the wait of the watcher and is
\* what the join returns; and after a clean shutdown (a termination signal,
\* then the graceful stop, Serve returning nil) the join returns nil, so Run
\* prints nothing and the process ends with status 0.
C15_JoinReturnsFirstError ==
    /\ serveF = "failed" => (CtxDone /\ Is(groupErr, "ErrServerStopped"))
    /\ GroupJoined => (exit = 0 <=> groupErr = NoError)
    /\ (GroupJoined /\ sigterm /\ serveF = "ret") =>
           (groupErr = NoError /\ exit = 0 /\ out = << >>)

\* ------------------------------------------ a plugin started by hand
\* The plugin binary is run from a shell, with any number of arguments,
\* and not by Use; clients of its socket call Stat.
RunArgs == {<< >>, << 1 >>, << 1, 2 >>}

InitRun ==
    /\ path \in {q \in Paths : HasBinary(q)}
    /\ upc = "standalone"
    /\ socket = 0
    /\ handles = << >>
    /\ p = NoPlugin
    /\ ret = [plugin |-> FALSE, err |-> NoError]
    /\ statReply = [called |-> FALSE, calls |-> 0, reached |-> FALSE, info |-> NoInfo, err |-> NoError]
    /\ conn = [st |-> "none", target |-> NoTarget]
    /\ closes = 0
    /\ lastClose = NoClose
    /\ calls = [c \in Callers |-> NoCall]
    /\ lastExec = NoCall
    /\ execs = 0
    /\ proc = "running"
    /\ pargs \in RunArgs
    /\ sigterm = FALSE
    /\ ppc = "run"
    /\ api = NoAPI
    /\ build = [info |-> NoInfo, handlers |-> NoHandlers]
    /\ listener = [st |-> "none", addr |-> << >>]
    /\ srv = "new"
    /\ serveF = "idle"
    /\ watchF = "waiting"
    /\ groupErr = NoError
    /\ exit = -1
    /\ out = << >>
    /\ served = 0
    /\ lastStat = NoStat

\* A SIGINT or SIGTERM reaches the process: the context of Run is done.
Signal ==
    /\ proc = "running" /\ ~sigterm
    /\ sigterm' = TRUE
    /\ UNCHANGED hostVars
    /\ UNCHANGED << proc, pargs, ppc, api, build, listener, srv, serveF, watchF, groupErr, exit, out, served, lastStat >>

NextRun ==
    \/ Signal
    \/ Stat
    \/ PluginBuild
    \/ PluginCommand
    \/ PluginRegister
    \/ PluginListen
    \/ ServeStart
    \/ ServeReturn
    \/ WatchStop
    \/ WatchReturn
    \/ GroupWait

SpecRun == InitRun /\ [][NextRun]_vars

\* The start of the plugin failed: the process has ended and never had a
\* listener.
StartFailed == ppc = "exited" /\ listener.st = "none"

\* C16: a plugin process given another number of arguments than one never
\* gets as far as building its API or listening; and when the start fails,
\* for the arguments or because the listener cannot be created, no request
\* was served and Run has printed "failed to start plugin" and ended the
\* process with status 1.
C16_FailedStartServesNothing ==
    /\ Len(pargs) # 1 => (ppc \in {"run", "exited"} /\ ~api.built /\ listener.st = "none")
    /\ (Len(pargs) # 1 /\ proc = "exited") => StartFailed
    /\ StartFailed =>
           /\ srv = "new" /\ serveF = "idle"
           /\ served = 0 /\ ~lastStat.ok
           /\ exit = 1
           /\ Len(out) = 3 /\ out[1] = "failed to start plugin" /\ out[2] = Config.Name

C16_Witness ==
    /\ StartFailed
    /\ pargs = << 1, 2 >>
    /\ sigterm
    /\ exit = 1
    /\ Len(out) = 3 /\ out[1] = "failed to start plugin"
    /\ out[3][1] = "accepts 1 arg(s), received"

\* The names of the Config's descriptors, in the order of the Config.
ConfigNames == [i \in 1..Len(Config.Commands) |-> Config.Commands[i].Use]

\* C17: from the moment the listener is created the API holds the whole
\* registry and the whole info of the Config, so every answer of Stat lists
\* all the commands and no Execute for a name of the Config is answered as
\* not found.
C17_RegistryBuiltBeforeListen ==
    /\ listener.st # "none" =>
           /\ api.built
           /\ api.info = [Name |-> Config.Name, Version |-> Version, Commands |-> ConfigNames]
           /\ DOMAIN api.handlers = {ConfigNames[i] : i \in 1..Len(ConfigNames)}
           /\ \A n \in DOMAIN api.handlers : api.handlers[n] = LastDescriptor(n)
    /\ lastStat.ok => lastStat.info.Commands = ConfigNames
    /\ (lastExec.st = "done" /\ lastExec.delivered /\ Registered(lastExec.name)) =>
           Code(lastExec.resp.err) # "NotFound"

C17_Witness ==
    /\ path = PathDup
    /\ listener.st = "open" /\ srv = "serving"
    /\ lastStat.ok /\ Len(lastStat.info.Commands) = 4
    /\ lastExec.st = "done" /\ lastExec.delivered /\ lastExec.name = "pingpong"
    /\ lastExec.resp.ran = << "pingpong" >>

\* C18: the command list every Stat reports, and the one the handle gives
\* after Use, is the sequence of the names of the Config's descriptors in
\* the order of the Config.
C18_CommandsInConfigOrder ==
    /\ lastStat.ok => lastStat.info.Commands = ConfigNames
    /\ (statReply.called /\ statReply.err = NoError) => statReply.info.Commands = ConfigNames
    /\ HasHandle => p.info.Commands = ConfigNames

C18_Witness ==
    /\ HasHandle
    /\ lastStat.ok
    /\ lastStat.info.Commands = << "", "test", "pingpong", "test" >>
    /\ p.info.Commands = << "", "test", "pingpong", "test" >>

\* How many times a name is in a command list.
Count(name, commands) == Cardinality({i \in 1..Len(commands) : commands[i] = name})

\* The registry has one entry for every name of the Config, bound to the
\* last descriptor of that name.
LastWriteWins ==
    /\ DOMAIN api.handlers = {ConfigNames[i] : i \in 1..Len(ConfigNames)}
    /\ \A name \in DOMAIN api.handlers : api.handlers[name] = LastDescriptor(name)

\* C19 as stated: the registry has one entry per name, bound to the later
\* descriptor when two have the name, and the name is once in the command
\* list Stat reports.
C19_AsStated ==
    api.built =>
        /\ LastWriteWins
        /\ \A name \in DOMAIN api.handlers : Count(name, APIStat(api).Commands) = 1

\* C19 amended: the registry has one entry per name, bound to the later
\* descriptor when two have the name, and the name is in the command list
\* Stat reports once for each descriptor that has it.
C19_LastWriteWins ==
    api.built =>
        /\ LastWriteWins
        /\ \A name \in DOMAIN api.handlers :
               Count(name, APIStat(api).Commands) = Cardinality(Descriptors(name))

C19_Witness ==
    /\ path = PathDup
    /\ api.built
    /\ api.handlers["test"] = CmdTestString
    /\ Cardinality(Descriptors("test")) = 2
    /\ lastStat.ok /\ Count("test", lastStat.info.Commands) = 2
    /\ ExecOnReady /\ lastExec.name = "test"
    /\ lastExec.input = Message("StringValue", "ping")
    /\ lastExec.err = NoError /\ lastExec.output = << Message("StringValue", "ping") >>

\* C20: Use calls Stat once, after its one tick, and never again; when that
\* call does not reach a serving plugin Use has failed for good: it returns
\* no handle and an error, it has called Close, which sent SIGTERM to the
\* subprocess, and a plugin that begins to serve later changes nothing.
C20_OneStatNoRetry ==
    /\ statReply.calls <= 1
    /\ statReply.called => (statReply.calls = 1 /\ upc = "returned")
    /\ HasHandle => (statReply.calls = 1 /\ statReply.reached)
    /\ (statReply.called /\ ~statReply.reached) =>
           /\ ~ret.plugin /\ ret.err # NoError
           /\ lastClose.by = "Use" /\ lastClose.sigTried
           /\ proc = "running" => sigterm

C20_Witness ==
    /\ upc = "returned"
    /\ statReply.calls = 1 /\ ~statReply.reached
    /\ ~ret.plugin /\ ret.err # NoError
    /\ sigterm
    /\ srv = "serving"

\* C21: once Close was called on the handle Use returned, every later step
\* leaves the connection closed, starts no subprocess (an exited one stays
\* exited, the identifier and the arguments stay), and an Exec that is
\* called then sends no request and returns an error and no output.
C21_NoTransitionLeavesClosed ==
    [][(HasHandle /\ closes > 0) =>
          /\ conn'.st = "closed"
          /\ proc' # "none" /\ (proc = "exited" => proc' = "exited")
          /\ socket' = socket /\ pargs' = pargs
          /\ execs' # execs =>
                 /\ calls' = calls
                 /\ lastExec'.st = "done" /\ ~lastExec'.delivered
                 /\ lastExec'.err # NoError /\ lastExec'.output = << >>]_vars

C21_Witness ==
    /\ HasHandle /\ closes = 2
    /\ conn.st = "closed" /\ proc = "exited"
    /\ lastClose.connErr # NoError
    /\ lastExec.st = "done" /\ ~lastExec.delivered
    /\ Code(lastExec.cerr) = "Canceled"
    /\ lastExec.err = Err("plain", << "grpc: the client connection is closing" >>)

\* ------------------------------------------- a host that calls Use often
\* The host calls Use up to MaxOpens times, on any of its binaries, and
\* closes handles; of each call the specification keeps the identifier of
\* xid.New, the argument given to the subprocess, the target NewClient
\* dials, the address the subprocess listens on, and whether Close was
\* called.
MaxOpens == 3

oneUseVars == << path, upc, p, ret, statReply, conn, closes, lastClose, calls, lastExec, execs >>

InitOpens ==
    /\ path = PathTest
    /\ upc = "opens"
    /\ socket = 0
    /\ handles = << >>
    /\ p = NoPlugin
    /\ ret = [plugin |-> FALSE, err |-> NoError]
    /\ statReply = [called |-> FALSE, calls |-> 0, reached |-> FALSE, info |-> NoInfo, err |-> NoError]
    /\ conn = [st |-> "none", target |-> NoTarget]
    /\ closes = 0
    /\ lastClose = NoClose
    /\ calls = [c \in Callers |-> NoCall]
    /\ lastExec = NoCall
    /\ execs = 0
    /\ proc = "none"
    /\ pargs = << >>
    /\ sigterm = FALSE
    /\ ppc = "run"
    /\ api = NoAPI
    /\ build = [info |-> NoInfo, handlers |-> NoHandlers]
    /\ listener = [st |-> "none", addr |-> << >>]
    /\ srv = "new"
    /\ serveF = "idle"
    /\ watchF = "waiting"
    /\ groupErr = NoError
    /\ exit = -1
    /\ out = << >>
    /\ served = 0
    /\ lastStat = NoStat

\* Use up to the dial: xid.New, cmd.Start with the identifier as the
\* argument, NewClient with the identifier.
Open ==
    /\ Len(handles) < MaxOpens
    /\ socket' = NewID(socket)
    /\ \E q \in {r \in Paths : HasBinary(r)} :
          handles' = Append(handles, [id |-> socket', path |-> q, arg |-> socket',
                                      target |-> ClientTarget(socket'),
                                      addr |-> << >>, closed |-> FALSE])
    /\ UNCHANGED oneUseVars
    /\ UNCHANGED pluginVars

\* The subprocess of a handle listens: net.Listen on the path made from
\* its argument.
OpenListen(i) ==
    /\ handles[i].addr = << >>
    /\ handles' = [handles EXCEPT ![i].addr = SocketPath(handles[i].arg)]
    /\ UNCHANGED socket
    /\ UNCHANGED oneUseVars
    /\ UNCHANGED pluginVars

\* The host calls Close on a handle.
OpenClose(i) ==
    /\ ~handles[i].closed
    /\ handles' = [handles EXCEPT ![i].closed = TRUE]
    /\ UNCHANGED socket
    /\ UNCHANGED oneUseVars
    /\ UNCHANGED pluginVars

NextOpens ==
    \/ Open
    \/ \E i \in 1..Len(handles) : OpenListen(i)
    \/ \E i \in 1..Len(handles) : OpenClose(i)

SpecOpens == InitOpens /\ [][NextOpens]_vars

C23_AtMostOneHandlerOnce ==
    (lastExec.st = "done" /\ lastExec.delivered) =>
        LET resp == lastExec.resp
            name == lastExec.name
        IN /\ Len(resp.called) <= 1 /\ Len(resp.ran) <= 1
           /\ \A i \in DOMAIN resp.called : resp.called[i] = name
           /\ \A i \in DOMAIN resp.ran : resp.ran[i] = name /\ resp.called = << name >>
           /\ (resp.err = NoError \/ Code(resp.err) = "Internal") =>
                  /\ name \in DOMAIN api.handlers
                  /\ resp.called = << name >>
                  /\ resp.out = CommandExecute(api.handlers[name], AnyNew(lastExec.input)).out
           /\ Code(resp.err) \in {"InvalidArgument", "NotFound"} =>
                  /\ name = "" \/ name \notin DOMAIN api.handlers
                  /\ resp.called = << >> /\ resp.ran = << >>
           /\ resp.err = NoError \/ Code(resp.err) \in {"Internal", "InvalidArgument", "NotFound"}

C23_Witness ==
    /\ lastExec.st = "done" /\ lastExec.delivered
    /\ Cardinality(DOMAIN api.handlers) > 1
    /\ lastExec.name = "test"
    /\ Code(lastExec.resp.err) = "Internal"
    /\ lastExec.resp.called = << "test" >>
    /\ lastExec.resp.ran = << "test" >>

C23_SuccessCase ==
    /\ lastExec.st = "done" /\ lastExec.delivered
    /\ Cardinality(DOMAIN api.handlers) > 1
    /\ lastExec.resp.err = NoError
    /\ lastExec.resp.called = << lastExec.name >>

C23_MismatchCase ==
    /\ lastExec.st = "done" /\ lastExec.delivered
    /\ Code(lastExec.resp.err) = "Internal"
    /\ lastExec.resp.called = << lastExec.name >>
    /\ lastExec.resp.ran = << >>

C23_NoHandlerCase ==
    /\ lastExec.st = "done" /\ lastExec.delivered
    /\ api.handlers # NoHandlers
    /\ Code(lastExec.resp.err) \in {"InvalidArgument", "NotFound"}
    /\ lastExec.resp.called = << >>

\* ------------------------------------------------------------------- C24
\* C24: Exec returns ErrUnknownCommand only when the plugin's registry has
\* no entry for the requested name: an Exec for a registered name never
\* returns it, also when the handler's own error is a NotFound status.
C24_UnknownCommandOnlyUnregistered ==
    (HasHandle /\ lastExec.st = "done") =>
        /\ Is(lastExec.err, "ErrUnknownCommand") =>
              /\ lastExec.delivered
              /\ lastExec.name \notin DOMAIN api.handlers
        /\ lastExec.name \in DOMAIN api.handlers =>
              /\ ~Is(lastExec.err, "ErrUnknownCommand")
              /\ Code(lastExec.cerr) # "NotFound"

C24_Witness ==
    /\ HasHandle /\ lastExec.st = "done" /\ lastExec.delivered
    /\ lastExec.name = "test" /\ "test" \in DOMAIN api.handlers
    /\ Code(Run(api.handlers["test"].Run, lastExec.input).err) = "NotFound"
    /\ lastExec.resp.ran = << "test" >>
    /\ Code(lastExec.resp.err) = "Internal"
    /\ lastExec.err = Err("plain", << "rpc error: code =", "NotFound", "desc =", "no entry for", "" >>)
    /\ ~Is(lastExec.err, "ErrUnknownCommand")

\* ------------------------------------------------------------------- C25
\* The set of the names in a command list.
Names(commands) == {commands[i] : i \in DOMAIN commands}

\* C25: in a running plugin the names of the command list that Stat reports
\* are the keys of the command registry: every reported name has a handler
\* and every name with a handler is reported.
C25_StatNamesAreRegistryKeys ==
    /\ api.built => Names(APIStat(api).Commands) = DOMAIN api.handlers
    /\ lastStat.ok => Names(lastStat.info.Commands) = DOMAIN api.handlers
    /\ (statReply.reached /\ statReply.err = NoError) =>
           Names(statReply.info.Commands) = DOMAIN api.handlers
    /\ ppc = "building" => Names(build.info.Commands) = DOMAIN build.handlers

C25_Witness ==
    /\ proc = "running" /\ srv = "serving" /\ api.built
    /\ lastStat.ok /\ lastStat.afterExecute
    /\ Len(lastStat.info.Commands) = 4
    /\ Names(lastStat.info.Commands) = {"", "test", "pingpong"}
    /\ DOMAIN api.handlers = {"", "test", "pingpong"}

\* ------------------------------------------------ shutdown under fairness
\* A client of the socket of the plugin started by hand sends an Execute
\* request, which a serving server accepts.  The callers are
\* interchangeable, so the second one is taken only while the first has a
\* request in flight.
ClientRequest(c) ==
    /\ proc = "running" /\ srv = "serving" /\ listener.st = "open"
    /\ execs < MaxExecs
    /\ calls[c].st = "idle"
    /\ c = "c1" \/ calls["c1"].st = "sent"
    /\ execs' = execs + 1
    /\ \E req \in ExecRequests :
          calls' = [calls EXCEPT ![c] = [NoCall EXCEPT !.st = "sent", !.delivered = TRUE,
                                                       !.name = req.name, !.input = req.input,
                                                       !.outType = req.outType]]
    /\ UNCHANGED << path, handles, upc, socket, p, ret, statReply, conn, closes, lastClose, lastExec >>
    /\ UNCHANGED pluginVars

\* API.Execute returns for a request in flight: the handler, if one was
\* invoked, has returned and the request is answered.
HandlerReturn(c) ==
    /\ proc = "running"
    /\ calls[c].st = "sent"
    /\ LET call == calls[c]
           resp == APIExecute(api, call.name, AnyNew(call.input))
       IN lastExec' = [call EXCEPT !.st = "done", !.resp = resp, !.cerr = resp.err]
    /\ calls' = [calls EXCEPT ![c] = NoCall]
    /\ served' = served + 1
    /\ UNCHANGED << path, handles, upc, socket, p, ret, statReply, conn, closes, lastClose, execs >>
    /\ UNCHANGED << proc, pargs, sigterm, ppc, api, build, listener, srv, serveF, watchF, groupErr, exit, out, lastStat >>

\* The goroutine of Run and startPlugin, up to group.Wait.
MainFlow == PluginBuild \/ PluginCommand \/ PluginRegister \/ PluginListen \/ GroupWait

\* The first goroutine of the errgroup.
ServeFlow == ServeStart \/ ServeReturn

\* The second goroutine of the errgroup.
WatchFlow == WatchStop \/ WatchReturn

NextStop ==
    \/ NextRun
    \/ \E c \in Callers : ClientRequest(c)
    \/ \E c \in Callers : HandlerReturn(c)

\* The goroutines of the plugin process are scheduled while they can take a
\* step, and a handler that was invoked returns.
FairStop ==
    /\ WF_vars(MainFlow) /\ WF_vars(ServeFlow) /\ WF_vars(WatchFlow)
    /\ \A c \in Callers : WF_vars(HandlerReturn(c))

SpecStop == InitRun /\ [][NextStop]_vars /\ FairStop

\* ------------------------------------------------------------------- C26
\* C26: after a termination signal has reached the plugin process, before
\* or after Serve has begun and in every interleaving of the two flows, the
\* runtime returns eventually (given that the handlers in flight return),
\* and when it has returned the socket is not there: the listener was closed
\* or was never created.
C26_SignalLeadsToReturnWithoutSocket ==
    /\ (sigterm /\ proc = "running") ~> (proc = "exited" /\ listener.st # "open" /\ ~InFlight)
    /\ [](proc = "exited" => listener.st # "open")

C26_Witness ==
    /\ sigterm /\ proc = "exited"
    /\ Len(pargs) = 1 /\ listener.st = "closed"
    /\ serveF = "ret" /\ watchF = "ret" /\ srv = "stopped"
    /\ served = MaxExecs

C26_SignalBeforeServe ==
    /\ sigterm /\ proc = "exited"
    /\ listener.st = "closed"
    /\ serveF = "failed" /\ watchF = "ret"
    /\ served = 0

C26_DrainingInFlight ==
    /\ sigterm /\ proc = "running"
    /\ srv = "draining" /\ watchF = "stopping" /\ listener.st = "closed"
    /\ \A c \in Callers : calls[c].st = "sent"
====
